---- MODULE Spec2Model ----
(***************************************************************************)
(* The routing / handoff state machine of MultiAgentRouter.route           *)
(* (src/src/multi_agent_system.ts), with the two collaborators whose       *)
(* results drive it: OrchestratorAgent.resolveOrderedIntents               *)
(* (src/unnamed/part_001) and the handoff filter of DomainRagAgent.invoke  *)
(* (src/src/agents/domain_agent.ts).                                       *)
(*                                                                         *)
(* Strings are sequences of tokens: the empty string is << >>, template    *)
(* literals and join are concatenation.  An optional value (a field that   *)
(* may be undefined) is a set with at most one element: {} is undefined.   *)
(* The `sources` field of an agent's result is carried through the router  *)
(* untouched and read by none of its branches; it is left out.             *)
(***************************************************************************)
EXTENDS Integers, Sequences, FiniteSets, TLC

VARIABLES
    pc,                \* position of the route call
    question,          \* the `question` argument of route
    classification,    \* classification.intents, as the classifier returned them
    queue,             \* the local `queue` of IntentQueueItem
    visited,           \* the local `visited` set
    turns,             \* the local `turns` array of AgentTurn
    cur,               \* the popped item {intent, note} while its agent is awaited
    invocations,       \* the calls agent.invoke(taskDirective, history) made so far
    unresolvedIntents, \* RouteResult.unresolvedIntents, once route has returned
    other              \* the same locals of a second route call on this router,
                       \* while that call is suspended or not yet made

vars == <<pc, question, classification, queue, visited, turns, cur,
          invocations, unresolvedIntents, other>>

-----------------------------------------------------------------------------
(* Types and program constants *)

Departments == {"hr", "tech", "finance"}

DepartmentIntent == Departments \cup {"unknown"}

\* z.array(...).min(1).max(3) of the classifier's schema
MinIntents == 1

MaxIntents == 3

\* the literal 5 of the loop condition
TurnBudget == 5

\* the `name` option each department's agent is created with
AgentName(intent) ==
    CASE intent = "hr" -> "HR Knowledge Specialist"
      [] intent = "tech" -> "IT Support Strategist"
      [] intent = "finance" -> "Finance Operations Advisor"

\* the keys of the agent map built by buildAgents
AgentKeys == Departments

Undefined == {}

Some(x) == {x}

Get(opt) == CHOOSE x \in opt : TRUE

\* JavaScript truthiness of an optional string
Truthy(opt) == opt # Undefined /\ Get(opt) # << >>

-----------------------------------------------------------------------------
(* Inputs: what the caller, the classifier and the agents' LLM may supply *)

Questions == {<<"Q">>}

\* every array of 1..3 intents the classifier's schema accepts
ClassifierOutputs ==
    UNION {[1..n -> DepartmentIntent] : n \in MinIntents..MaxIntents}

\* number of distinct reasons an agent may give for a handoff
NumReasons == 1

Reasons == {<<"reason", i>> : i \in 1..NumReasons}

\* context_package is optional and may be the empty string
ContextPackages == {Undefined, Some(<< >>), Some(<<"context">>)}

FollowUps ==
    [intent : DepartmentIntent, reason : Reasons, context_package : ContextPackages]

AnswerOf(intent) == <<"answer of", intent>>

\* the parsed LLM output of a domain agent: {answer, follow_up?}
ParsedOutputs(intent) ==
    [answer : {AnswerOf(intent)},
     follow_up : {Undefined} \cup {Some(f) : f \in FollowUps}]

-----------------------------------------------------------------------------
(* Pure functions *)

Normalize(candidate) ==
    IF candidate \in {"hr", "tech", "finance"} THEN candidate ELSE "unknown"

\* faulty variant: only the last kept intent is compared
IncludesLast(seq, x) == seq # << >> /\ seq[Len(seq)] = x

\* unique.includes(normalized)
Includes(seq, x) == \E i \in 1..Len(seq) : seq[i] = x

RECURSIVE Unique(_, _)
Unique(intents, unique) ==
    IF intents = << >> THEN unique
    ELSE LET normalized == Normalize(Head(intents))
         IN  Unique(Tail(intents),
                    IF ~Includes(unique, normalized)
                    THEN Append(unique, normalized)
                    ELSE unique)

resolveOrderedIntents(intents) == Unique(intents, << >>)

\* orderedIntents.map((intent) => ({ intent }))
InitialQueue(orderedIntents) ==
    [i \in 1..Len(orderedIntents) |->
        [intent |-> orderedIntents[i], note |-> Undefined]]

\* the result DomainRagAgent.invoke builds from the parsed LLM output
AgentResult(parsed) ==
    [text |-> parsed.answer,
     handoff |->
        IF parsed.follow_up # Undefined /\ Get(parsed.follow_up).intent # "unknown"
        THEN Some([intent |-> Get(parsed.follow_up).intent,
                   reason |-> Get(parsed.follow_up).reason,
                   context |-> Get(parsed.follow_up).context_package])
        ELSE Undefined]

\* faulty variant: the loop stops with one item still queued
LoopLeavesLastItem(q, t) == Len(q) > 1 /\ Len(t) < TurnBudget

\* queue.length && turns.length < 5
LoopCondition(q, t) == Len(q) > 0 /\ Len(t) < TurnBudget

\* faulty variant: only the visited test, no `unknown` test and no agent lookup
SkipsVisitedOnly(intent, v) == intent \in v

\* faulty variant: the visited test is missing
SkipsUnknownOnly(intent, v) == intent = "unknown" \/ intent \notin AgentKeys

\* the two `continue` branches: unknown or visited, or no agent bound
Skips(intent, v) ==
    \/ intent = "unknown"
    \/ intent \in v
    \/ intent \notin AgentKeys

\* faulty variant: the raw intent is used as the label
LabelIsIntent(turn) == turn.intentTried

Label(turn) ==
    IF turn.intentTried = "unknown" THEN "Unknown intent"
    ELSE IF turn.intentTried \in AgentKeys THEN AgentName(turn.intentTried)
    ELSE turn.intentTried

HistoryEntry(turn) == <<Label(turn), ":\n">> \o turn.response.text

RECURSIVE Join(_)
Join(entries) ==
    IF entries = << >> THEN << >>
    ELSE IF Len(entries) = 1 THEN entries[1]
    ELSE entries[1] \o <<"\n\n">> \o Join(Tail(entries))

History(t) == Join([i \in 1..Len(t) |-> HistoryEntry(t[i])])

NoPriorResponses == <<"No prior agent responses.">>

\* history || 'No prior agent responses.'
HistoryArgument(t) == IF History(t) = << >> THEN NoPriorResponses ELSE History(t)

FollowUpDirective == <<"\n\nFollow-up directive: ">>

TaskDirective(q, note) ==
    IF Truthy(note) THEN q \o FollowUpDirective \o Get(note) ELSE q

\* response.handoff.context ?? response.handoff.reason
HandoffNote(handoff) ==
    IF handoff.context # Undefined THEN handoff.context ELSE Some(handoff.reason)

\* faulty variant: visited.add is missing
VisitedForgotten(v, intent) == v

\* visited.add(intent)
VisitedAdd(v, intent) == v \cup {intent}

\* faulty variant: unshift instead of push
EnqueueAtHead(q, item) == <<item>> \o q

\* queue.push(item)
Enqueue(q, item) == Append(q, item)

\* faulty variant: the head is read but not removed
ShiftKeepsHead(q) == q

\* the queue after queue.shift()
Shifted(q) == Tail(q)

\* queue.map((item) => item.intent).filter((intent) => !visited.has(intent))
Unresolved(q, v) ==
    SelectSeq([i \in 1..Len(q) |-> q[i].intent], LAMBDA intent : intent \notin v)

-----------------------------------------------------------------------------
(* The state machine *)

NoItem == [intent |-> "unknown", note |-> Undefined]

\* the locals of a route call that has not been made
IdleFrame ==
    [pc |-> "idle", question |-> << >>, classification |-> << >>,
     queue |-> << >>, visited |-> {}, turns |-> << >>, cur |-> NoItem,
     invocations |-> << >>, unresolvedIntents |-> << >>]

Init ==
    /\ pc = "idle"
    /\ question = << >>
    /\ classification = << >>
    /\ queue = << >>
    /\ visited = {}
    /\ turns = << >>
    /\ cur = NoItem
    /\ invocations = << >>
    /\ unresolvedIntents = << >>
    /\ other = IdleFrame

\* route(question): up to the await of orchestrator.classify
RouteCall ==
    /\ pc = "idle"
    /\ \E q \in Questions : question' = q
    /\ pc' = "classifying"
    /\ UNCHANGED <<classification, queue, visited, turns, cur, invocations,
                   unresolvedIntents,
                   other>>

\* classify returns: the queue, the visited set and the transcript are built
ClassifyReturn ==
    /\ pc = "classifying"
    /\ \E intents \in ClassifierOutputs :
          /\ classification' = intents
          /\ queue' = InitialQueue(resolveOrderedIntents(intents))
    /\ visited' = {}
    /\ turns' = << >>
    /\ pc' = "dispatching"
    /\ UNCHANGED <<question, cur, invocations, unresolvedIntents,
                   other>>

\* classify rejects: route rejects with the same error
ClassifyFail ==
    /\ pc = "classifying"
    /\ pc' = "failed"
    /\ UNCHANGED <<question, classification, queue, visited, turns, cur,
                   invocations, unresolvedIntents,
                   other>>

\* one loop iteration that ends in `continue`
Skip ==
    /\ pc = "dispatching"
    /\ LoopCondition(queue, turns)
    /\ Skips(Head(queue).intent, visited)
    /\ queue' = Shifted(queue)
    /\ UNCHANGED <<pc, question, classification, visited, turns, cur,
                   invocations, unresolvedIntents,
                   other>>

\* one loop iteration up to the await of agent.invoke
Dispatch ==
    /\ pc = "dispatching"
    /\ LoopCondition(queue, turns)
    /\ ~Skips(Head(queue).intent, visited)
    /\ cur' = Head(queue)
    /\ queue' = Shifted(queue)
    /\ invocations' = Append(invocations,
          [intent |-> Head(queue).intent,
           note |-> Head(queue).note,
           task |-> TaskDirective(question, Head(queue).note),
           history |-> HistoryArgument(turns)])
    /\ pc' = "invoking"
    /\ UNCHANGED <<question, classification, visited, turns, unresolvedIntents,
                   other>>

\* agent.invoke returns: the rest of the loop iteration
AgentReturn ==
    /\ pc = "invoking"
    /\ \E parsed \in ParsedOutputs(cur.intent) :
          LET response == AgentResult(parsed)
              visitedNow == VisitedAdd(visited, cur.intent)
          IN  /\ turns' = Append(turns, [intentTried |-> cur.intent,
                                         response |-> response])
              /\ visited' = visitedNow
              /\ queue' =
                    IF /\ response.handoff # Undefined
                       /\ Get(response.handoff).intent \notin visitedNow
                    THEN Enqueue(queue,
                            [intent |-> Get(response.handoff).intent,
                             note |-> HandoffNote(Get(response.handoff))])
                    ELSE queue
    /\ cur' = NoItem
    /\ pc' = "dispatching"
    /\ UNCHANGED <<question, classification, invocations, unresolvedIntents,
                   other>>

\* faulty variant: the rejection is caught and the loop goes on
AgentFailSwallowed ==
    /\ pc = "invoking"
    /\ cur' = NoItem
    /\ pc' = "dispatching"
    /\ UNCHANGED <<question, classification, queue, visited, turns,
                   invocations, unresolvedIntents,
                   other>>

\* agent.invoke rejects: route rejects with the same error
AgentFail ==
    /\ pc = "invoking"
    /\ pc' = "failed"
    /\ UNCHANGED <<question, classification, queue, visited, turns, cur,
                   invocations, unresolvedIntents,
                   other>>

\* the loop ends: unresolvedIntents is computed and route returns
Finish ==
    /\ pc = "dispatching"
    /\ ~LoopCondition(queue, turns)
    /\ unresolvedIntents' = Unresolved(queue, visited)
    /\ pc' = "done"
    /\ UNCHANGED <<question, classification, queue, visited, turns, cur,
                   invocations, other>>

Next ==
    \/ RouteCall
    \/ ClassifyReturn
    \/ ClassifyFail
    \/ Skip
    \/ Dispatch
    \/ AgentReturn
    \/ AgentFail
    \/ Finish

Spec == Init /\ [][Next]_vars

\* every pending call to the classifier or an agent completes, and the
\* synchronous code between two awaits runs to the next await
FairSpec == Spec /\ WF_vars(Next)

-----------------------------------------------------------------------------
(* Two route calls on the same router, interleaved at their awaits *)

\* the locals of the call that is running
Frame ==
    [pc |-> pc, question |-> question, classification |-> classification,
     queue |-> queue, visited |-> visited, turns |-> turns, cur |-> cur,
     invocations |-> invocations, unresolvedIntents |-> unresolvedIntents]

\* where a call can be while the other one runs: not yet made, awaiting
\* classify, awaiting agent.invoke, returned or rejected
SuspensionPoints == {"idle", "classifying", "invoking", "done", "failed"}

\* faulty variant: one visited set on the router, shared by its calls
VisitedShared(own, current) == current

\* `visited` is created inside route: a resumed call finds its own set
VisitedResumed(own, current) == own

\* the running call is suspended at an await (or is over, or not yet made)
\* and the event loop resumes the other call with its own locals
Switch ==
    /\ pc \in SuspensionPoints
    /\ other' = Frame
    /\ pc' = other.pc
    /\ question' = other.question
    /\ classification' = other.classification
    /\ queue' = other.queue
    /\ visited' = VisitedResumed(other.visited, visited)
    /\ turns' = other.turns
    /\ cur' = other.cur
    /\ invocations' = other.invocations
    /\ unresolvedIntents' = other.unresolvedIntents

\* the classifier outputs explored with two calls: every single intent, and
\* two pairs
ConcClassifierOutputs ==
    {c \in ClassifierOutputs : Len(c) = 1}
        \cup {<<"hr", "tech">>, <<"unknown", "finance">>}

\* the handoffs explored with two calls: any department, no context package
ConcHandoffs ==
    [intent : Departments, reason : {<<"reason", 1>>}, context : {Undefined}]

\* the running call's inputs are among those explored with two calls
ConcInputs ==
    /\ classification = << >> \/ classification \in ConcClassifierOutputs
    /\ \A i \in 1..Len(turns) :
          turns[i].response.handoff \subseteq ConcHandoffs

ConcNext ==
    \/ Switch
    \/ RouteCall
    \/ ClassifyReturn /\ ConcInputs'
    \/ ClassifyFail
    \/ Skip
    \/ Dispatch
    \/ AgentReturn /\ ConcInputs'
    \/ AgentFail
    \/ Finish

ConcSpec == Init /\ [][ConcNext]_vars

-----------------------------------------------------------------------------
(* Properties *)

TurnIntents == [i \in 1..Len(turns) |-> turns[i].intentTried]

InvokedIntents == [k \in 1..Len(invocations) |-> invocations[k].intent]

NoRepeat(seq) == \A i, j \in 1..Len(seq) : i # j => seq[i] # seq[j]

\* the handoff of the i-th turn names department d
HandsOffTo(i, d) ==
    /\ i <= Len(turns)
    /\ turns[i].response.handoff # Undefined
    /\ Get(turns[i].response.handoff).intent = d

\* s has sub as a contiguous part
Contains(s, sub) ==
    \E i \in 0..(Len(s) - Len(sub)) : SubSeq(s, i + 1, i + Len(sub)) = sub

\* C1: in every route call, whatever the classifier returns and whatever
\* handoffs the agents request, no department occurs twice among the intents
\* of the recorded turns, and no department's agent is invoked twice.
C1_NoDepartmentDispatchedTwice ==
    /\ NoRepeat(TurnIntents)
    /\ NoRepeat(InvokedIntents)

\* C1 witness: a returned call whose classifier repeated a department and in
\* which an agent handed off to a department that was queued already.
C1_Witness ==
    /\ pc = "done"
    /\ classification = <<"hr", "hr", "tech">>
    /\ HandsOffTo(1, "tech")
    /\ HandsOffTo(2, "hr")
    /\ TurnIntents = <<"hr", "tech">>

\* C2: `unknown` is never the intent of a dispatched turn: no agent is
\* awaited or invoked for it and no turn records it.
C2_UnknownNeverDispatched ==
    /\ \A i \in 1..Len(turns) : turns[i].intentTried # "unknown"
    /\ \A k \in 1..Len(invocations) : invocations[k].intent # "unknown"
    /\ pc = "invoking" => cur.intent # "unknown"

\* C2 witness: a returned call whose classifier put `unknown` first, with a
\* department after it that was dispatched.
C2_Witness ==
    /\ pc = "done"
    /\ classification = <<"unknown", "hr">>
    /\ TurnIntents = <<"hr">>

\* C3: a route call whose classifier call and agent invocations all return
\* (none rejects) eventually returns a RouteResult.
C3_RouteTerminates == [](pc # "failed") => <>(pc = "done")

\* C3 witness: a returned call in which every agent requested a handoff.
C3_Witness ==
    /\ pc = "done"
    /\ Len(turns) = 3
    /\ \A i \in 1..Len(turns) : turns[i].response.handoff # Undefined

\* C4: at every point of a route call the visited set is the set of intents
\* of the turns recorded so far, and neither exceeds the turn budget.
C4_VisitedIsTurnIntents ==
    /\ visited = {turns[i].intentTried : i \in 1..Len(turns)}
    /\ Cardinality(visited) <= TurnBudget
    /\ Len(turns) <= TurnBudget

\* C4 witness: a returned call with three turns recorded.
C4_Witness ==
    /\ pc = "done"
    /\ Len(turns) = 3
    /\ visited = Departments

\* the classifier returned the single department a, a's agent handed off to
\* b and b's agent handed off back to a
HandoffCycle(a, b) ==
    /\ classification = <<a>>
    /\ Len(turns) >= 2
    /\ HandsOffTo(1, b)
    /\ HandsOffTo(2, a)

\* C5: a handoff cycle a -> b -> a ends after two turns: the turns are
\* [a, b], a is not invoked again, and nothing is left to dispatch.
C5_HandoffCycleTwoTurns ==
    \A a, b \in Departments :
        (a # b /\ HandoffCycle(a, b)) =>
            /\ TurnIntents = <<a, b>>
            /\ InvokedIntents = <<a, b>>
            /\ \A i \in 1..Len(queue) : queue[i].intent \in visited
            /\ pc = "done" => unresolvedIntents = << >>

\* C5 witness: the call of the cycle hr -> tech -> hr has returned.
C5_Witness ==
    /\ pc = "done"
    /\ HandoffCycle("hr", "tech")

\* a step changes the queue only by removing its head or by adding one item
\* at its tail (the initial fill when classify returns aside)
FifoStep ==
    \/ pc = "classifying"
    \/ queue' = queue
    \/ queue # << >> /\ queue' = Tail(queue)
    \/ /\ Len(queue') = Len(queue) + 1
       /\ SubSeq(queue', 1, Len(queue)) = queue

\* the classifier returned [hr, tech] and hr's agent handed off to finance
HrTechThenFinance ==
    /\ classification = <<"hr", "tech">>
    /\ HandsOffTo(1, "finance")

\* C6: the queue is first-in first-out: items leave at the head and handoffs
\* join at the tail, so for [hr, tech] with hr handing off to finance the
\* turns are [hr, tech, finance].
C6_QueueIsFifo ==
    /\ [][FifoStep]_vars
    /\ []((pc = "done" /\ HrTechThenFinance) =>
            TurnIntents = <<"hr", "tech", "finance">>)

\* C6 witness: that call has returned with finance dispatched last.
C6_Witness ==
    /\ pc = "done"
    /\ HrTechThenFinance
    /\ TurnIntents = <<"hr", "tech", "finance">>

\* the items still queued whose intent is not visited
PendingItems == SelectSeq(queue, LAMBDA item : item.intent \notin visited)

\* C8: at return, unresolvedIntents is the intents of the items still in the
\* queue, in queue order, that are not visited; it is non-empty only if the
\* call recorded as many turns as the turn budget.
C8_UnresolvedIsPendingQueue ==
    pc = "done" =>
        /\ Len(unresolvedIntents) = Len(PendingItems)
        /\ \A i \in 1..Len(PendingItems) :
              unresolvedIntents[i] = PendingItems[i].intent
        /\ unresolvedIntents # << >> => Len(turns) = TurnBudget

\* C8 witness: a call has returned after dispatching a handoff's item and
\* discarding a second request for a visited department.
C8_Witness ==
    /\ pc = "done"
    /\ classification = <<"hr">>
    /\ HandsOffTo(1, "tech")
    /\ HandsOffTo(2, "hr")
    /\ unresolvedIntents = << >>

\* the note the specification gives a handoff: its context if it has one,
\* otherwise its reason
NoteText(h) == IF h.context # Undefined THEN Get(h.context) ELSE h.reason

\* C9: the task of an invocation whose queue item came from the
\* classification is the question unchanged; the task of an invocation whose
\* queue item a handoff created is the question followed by the follow-up
\* directive section carrying that handoff's note (its context if it has
\* one, otherwise its reason), whatever the context and the reason are.
C9_TaskCarriesNote ==
    \A k \in 1..Len(invocations) :
        LET inv == invocations[k]
        IN  IF inv.note = Undefined
            THEN inv.task = question
            ELSE \E i \in 1..(k - 1) :
                    /\ HandsOffTo(i, inv.intent)
                    /\ inv.note = Some(NoteText(Get(turns[i].response.handoff)))
                    /\ inv.task = question \o FollowUpDirective
                                      \o NoteText(Get(turns[i].response.handoff))

\* the task forwards the note: it holds the follow-up directive section with
\* the note's text (an empty note has no text to forward; that case is C9's)
DirectiveForwarded(task, note) ==
    note = << >> \/ Contains(task, FollowUpDirective \o note)

\* C10: whenever a dispatched agent's result hands off to a department not
\* yet visited, that department's agent is invoked later in the same call
\* with a task holding the handoff's follow-up directive and a history
\* holding the answer of the agent that handed off.
C10_HandoffNoteForwarded ==
    pc = "done" =>
        \A i \in 1..Len(turns) :
            LET handoff == turns[i].response.handoff
            IN  (/\ handoff # Undefined
                 /\ \A j \in 1..i : turns[j].intentTried # Get(handoff).intent)
                => \E k \in (i + 1)..Len(turns) :
                      /\ turns[k].intentTried = Get(handoff).intent
                      /\ DirectiveForwarded(invocations[k].task,
                                            NoteText(Get(handoff)))
                      /\ Contains(invocations[k].history, turns[i].response.text)

\* an awaited call ends in its result or in the route's rejection, and a
\* rejected route does nothing more
AbortStep ==
    /\ pc = "classifying" =>
          \/ pc' = "failed" /\ invocations' = << >> /\ turns' = << >>
          \/ pc' = "dispatching" /\ classification' \in ClassifierOutputs
    /\ pc = "invoking" =>
          \/ pc' = "failed" /\ invocations' = invocations /\ turns' = turns
          \/ pc' = "dispatching" /\ Len(turns') = Len(turns) + 1
    /\ pc = "failed" =>
          /\ pc' = "failed"
          /\ invocations' = invocations
          /\ turns' = turns
          /\ unresolvedIntents' = unresolvedIntents

\* C11: a rejected classify or agent call aborts the route: after a failed
\* classify no agent is ever invoked; after a failed agent call no agent is
\* invoked again (the failed one included), and the route ends rejected,
\* with no result made of the turns completed so far.
C11_ErrorsAbortRoute ==
    /\ [][AbortStep]_vars
    /\ [](Len(invocations) <= Len(turns) + 1)
    /\ [](pc = "failed" =>
            /\ unresolvedIntents = << >>
            /\ invocations = << >> \/ Len(invocations) = Len(turns) + 1)

\* C11 witness: an agent call was rejected after two completed turns.
C11_Witness ==
    /\ pc = "failed"
    /\ Len(turns) = 2
    /\ Len(invocations) = 3

\* the head of the queue is about to be popped and is `unknown`, visited, or
\* has no bound agent
HeadIsDiscarded ==
    /\ pc = "dispatching"
    /\ LoopCondition(queue, turns)
    /\ \/ Head(queue).intent = "unknown"
       \/ Head(queue).intent \in visited
       \/ Head(queue).intent \notin AgentKeys

\* C12: popping an item whose intent is `unknown`, visited or without an
\* agent only removes it: no agent is invoked and the transcript and the
\* visited set stay as they are, so no turn is consumed; a classification
\* made only of `unknown` returns no turns and no unresolved intents.
C12_DiscardChangesOnlyQueue ==
    /\ [][HeadIsDiscarded =>
            /\ queue' = Tail(queue)
            /\ turns' = turns
            /\ visited' = visited
            /\ invocations' = invocations
            /\ pc' = "dispatching"]_vars
    /\ []((pc = "done" /\ \A i \in 1..Len(classification) :
                              classification[i] = "unknown")
            => turns = << >> /\ invocations = << >> /\ unresolvedIntents = << >>)

\* C12 witness: the call classified as [unknown, unknown] has returned; its
\* single queued item was discarded.
C12_Witness ==
    /\ pc = "done"
    /\ classification = <<"unknown", "unknown">>
    /\ queue = << >>
    /\ turns = << >>
    /\ unresolvedIntents = << >>

\* the position of the first occurrence of x in seq
FirstIndex(seq, x) ==
    CHOOSE i \in 1..Len(seq) :
        seq[i] = x /\ \A j \in 1..(i - 1) : seq[j] # x

\* out keeps each value of input once, at the relative position of its
\* first occurrence
IsFirstSeenOrder(input, out) ==
    /\ out # << >>
    /\ NoRepeat(out)
    /\ {out[i] : i \in 1..Len(out)} = {input[i] : i \in 1..Len(input)}
    /\ \A i, j \in 1..Len(out) :
          i < j => FirstIndex(input, out[i]) < FirstIndex(input, out[j])

\* C13: for every classification of 1-3 intents, resolveOrderedIntents
\* returns a non-empty sequence without duplicates that keeps each intent at
\* the relative position of its first occurrence, and the initial queue of
\* route is that sequence with no notes.
C13_InitialQueueIsFirstSeenOrder ==
    [][(pc = "classifying" /\ pc' = "dispatching") =>
         /\ IsFirstSeenOrder(classification',
                             resolveOrderedIntents(classification'))
         /\ IsFirstSeenOrder(classification',
                             [i \in 1..Len(queue') |-> queue'[i].intent])
         /\ \A i \in 1..Len(queue') : queue'[i].note = Undefined]_vars

\* C13 witness: classify has just returned [tech, hr, tech] and the queue
\* holds tech then hr.
C13_Witness ==
    /\ pc = "dispatching"
    /\ classification = <<"tech", "hr", "tech">>
    /\ turns = << >>
    /\ queue = <<[intent |-> "tech", note |-> Undefined],
                 [intent |-> "hr", note |-> Undefined]>>

\* the first n recorded turns as "<agent name>:\n<answer>" entries in
\* transcript order, a blank line between two entries
RECURSIVE TranscriptText(_)
TranscriptText(n) ==
    IF n = 0 THEN << >>
    ELSE (IF n = 1 THEN << >> ELSE TranscriptText(n - 1) \o <<"\n\n">>)
         \o <<AgentName(turns[n].intentTried), ":\n">> \o turns[n].response.text

\* C15: the history given to the agent of the k-th turn is the k-1 turns
\* recorded before it, in transcript order, each labelled with its agent;
\* the first invocation, and only it, gets the "no prior responses"
\* sentinel; at most one invocation is outstanding at any time.
C15_HistoryIsPriorTurns ==
    /\ \A k \in 1..Len(invocations) :
          /\ k = 1 => invocations[k].history = <<"No prior agent responses.">>
          /\ k > 1 => invocations[k].history = TranscriptText(k - 1)
          /\ k > 1 => invocations[k].history # <<"No prior agent responses.">>
          /\ k <= Len(turns) => turns[k].intentTried = invocations[k].intent
    /\ Len(invocations) - Len(turns) \in {0, 1}
    /\ Len(invocations) = Len(turns) + 1 <=> pc = "invoking" \/
          (pc = "failed" /\ invocations # << >>)

\* C15 witness: the third agent is being awaited after two recorded turns,
\* the second of which came from a handoff.
C15_Witness ==
    /\ pc = "invoking"
    /\ Len(turns) = 2
    /\ Len(invocations) = 3
    /\ classification = <<"finance">>
    /\ TurnIntents = <<"finance", "hr">>

\* C16: with the three departments of the program the turn budget is never
\* reached: at most 3 turns are recorded, the loop ends only with the queue
\* empty, and the returned unresolvedIntents is always empty.
C16_BudgetNeverReached ==
    /\ Len(turns) <= 3
    /\ Len(turns) < TurnBudget
    /\ (pc = "dispatching" /\ ~LoopCondition(queue, turns)) => queue = << >>
    /\ pc = "done" => queue = << >> /\ unresolvedIntents = << >>

\* C16 witness: a returned call in which all three departments were
\* dispatched and the last agent still asked for a handoff.
C16_Witness ==
    /\ pc = "done"
    /\ Len(turns) = 3
    /\ turns[3].response.handoff # Undefined
    /\ unresolvedIntents = << >>

\* the classifier's intents, deduplicated, without `unknown`
ClassifiedDepartments ==
    SelectSeq(resolveOrderedIntents(classification),
              LAMBDA intent : intent # "unknown")

\* C17: the returned turns begin with the classifier's deduplicated
\* non-unknown intents in classification order, every later turn is for a
\* department some earlier turn handed off to, and when no agent requests a
\* handoff the turns are exactly the classified departments and nothing is
\* unresolved.
C17_ClassifiedDepartmentsFirst ==
    pc = "done" =>
        /\ Len(turns) >= Len(ClassifiedDepartments)
        /\ SubSeq(TurnIntents, 1, Len(ClassifiedDepartments))
              = ClassifiedDepartments
        /\ \A k \in (Len(ClassifiedDepartments) + 1)..Len(turns) :
              \E i \in 1..(k - 1) : HandsOffTo(i, turns[k].intentTried)
        /\ (\A i \in 1..Len(turns) : turns[i].response.handoff = Undefined)
              => /\ TurnIntents = ClassifiedDepartments
                 /\ unresolvedIntents = << >>

\* C17 witness: for [tech, unknown, hr] with tech handing off to finance the
\* call returned tech, hr, finance.
C17_Witness ==
    /\ pc = "done"
    /\ classification = <<"tech", "unknown", "hr">>
    /\ HandsOffTo(1, "finance")
    /\ TurnIntents = <<"tech", "hr", "finance">>

\* the response the agent of intent d gave in the call with locals f
ResponseIn(f, d) ==
    (CHOOSE i \in 1..Len(f.turns) : f.turns[i].intentTried = d)

\* route's loop run without interruption from queue q, visited set v and
\* transcript t, every agent answering as recorded in resp (a department
\* with no recorded answer ends the run with the marker "?")
RECURSIVE RunAlone(_, _, _, _)
RunAlone(q, v, t, resp) ==
    IF ~LoopCondition(q, t)
    THEN [turns |-> t, unresolvedIntents |-> Unresolved(q, v)]
    ELSE IF Skips(Head(q).intent, v)
    THEN RunAlone(Shifted(q), v, t, resp)
    ELSE IF Head(q).intent \notin DOMAIN resp
    THEN [turns |-> t, unresolvedIntents |-> <<"?">>]
    ELSE LET intent == Head(q).intent
             response == resp[intent]
             visitedNow == VisitedAdd(v, intent)
         IN  RunAlone(
                IF /\ response.handoff # Undefined
                   /\ Get(response.handoff).intent \notin visitedNow
                THEN Enqueue(Shifted(q),
                        [intent |-> Get(response.handoff).intent,
                         note |-> HandoffNote(Get(response.handoff))])
                ELSE Shifted(q),
                visitedNow,
                Append(t, [intentTried |-> intent, response |-> response]),
                resp)

\* what the call with locals f returns when it runs alone with the same
\* classifier output and the same agent responses
AloneResult(f) ==
    RunAlone(InitialQueue(resolveOrderedIntents(f.classification)), {}, << >>,
             [d \in {f.turns[i].intentTried : i \in 1..Len(f.turns)} |->
                 f.turns[ResponseIn(f, d)].response])

ReturnsAsAlone(f) ==
    f.pc = "done" =>
        /\ f.turns = AloneResult(f).turns
        /\ f.unresolvedIntents = AloneResult(f).unresolvedIntents

\* C14: with two route calls interleaved at their awaits in every possible
\* way, a step of one call leaves the other call's queue, visited set and
\* transcript (all its locals) as they were, resuming a call restores
\* exactly the locals it was suspended with, and each call returns the turns
\* and unresolvedIntents it returns when run alone on the same responses.
C14_RouteIsReentrant ==
    /\ [][\/ other' = other
          \/ other' = Frame /\ Frame' = other]_vars
    /\ [](ReturnsAsAlone(Frame) /\ ReturnsAsAlone(other))

\* C14 witness: one call has returned with two turns while the other call,
\* made before that return, is suspended in its second agent invocation.
C14_Witness ==
    /\ pc = "done"
    /\ classification = <<"hr">>
    /\ TurnIntents = <<"hr", "finance">>
    /\ other.pc = "invoking"
    /\ other.classification = <<"hr", "tech">>
    /\ Len(other.turns) = 1
    /\ other.cur.intent = "tech"

====
